---- MODULE Spec2Model ----
(***************************************************************************)
(* LaserSynchTask (src/laser_synch_task.py): the cyclic supervisory        *)
(* controller with sliding-window buffers, the PLL interlock and the       *)
(* motor tracking step.                                                    *)
(*                                                                         *)
(* Numbers.  The code works on doubles; the model uses integers in fixed   *)
(* units:                                                                  *)
(*   error samples and PLL_ERR_TSH      : unit 1.0    (default 1.0 -> 1)    *)
(*   amplitude samples and LASER_AMP_TSH: unit 1.0    (default 0.0 -> 0)    *)
(*   correction values                  : unit 0.0625 (2^-4)                *)
(*   TRACKING_TSH                       : unit 0.0125 (default 0.1 -> 8)    *)
(*   TRACKING_STEP and the motor step   : unit 0.01   (default 0.01 -> 1)   *)
(* The correction samples are multiples of 2^-4, so the sum np.mean forms   *)
(* is exact in double arithmetic and np.mean returns the double nearest to *)
(* sum/len.  The model keeps that double as the fraction num/den in lowest *)
(* terms; one correction unit is 5 threshold units, and a comparison of    *)
(* the mean with a threshold k * 0.0125 (the double nearest to it) has the  *)
(* outcome of the comparison of the exact numbers.                         *)
(*                                                                         *)
(* External calls.  caget either returns a value, returns None, or raises; *)
(* caput either takes effect or raises.                                    *)
(***************************************************************************)
EXTENDS Integers, Sequences, FiniteSets, TLC

\* ------------------------------------------------------------------ bounds
\* largest configured buffer capacity (avg_num, interlock_buff_length)
MaxCap == 2
\* the run loop is explored until the cycle counter reaches this value
MaxCycle == 3

\* ------------------------------------------------------- input value sets
\* np.mean of the acquired correction waveform slice, in units of 0.0625:
\* -0.125, 0.0625, 0.125
CorrVals == {-2, 1, 2}
\* np.max of the acquired error waveform, in units of 1.0
ErrVals == {1, 2}
\* the laser amplitude read from pv_laser_amp_llrf, in units of 1.0
AmpVals == {-1, 1}

\* ------------------------------------------------------------------ state
VARIABLES
    cfg,             \* task parameters read by initialize()
    env,             \* the external actors present in this run
    pv,              \* the task's PV table (get_pv / set_pv)
    corr_buff,       \* self.corr_buff
    err_buff,        \* self.err_buff
    laser_amp_buff,  \* self.laser_amp_buff
    running,         \* self.running
    status,          \* set_status
    message,         \* set_message
    cycle,           \* the cycle counter (get_cycle / step_cycle)
    hw_pll,          \* the RedPitaya digital output DIGITAL_P4_STATE
    pc,              \* run(): "idle" (sleeping until the next tick), "done"
                     \* (a tick's work just finished), "stopped"
    last,            \* what the most recent tick of run() did
    streak,          \* consecutive completed cycles with a violating sample
    latched,         \* the interlock engaged (the trip branch issued the
                     \* force-off) and nobody re-armed the PLL since
    attrs            \* instance attributes of the other tasks (MonitoringTask,
                     \* DataLoggingTask, CheckMotorMovement)

vars == <<cfg, env, pv, corr_buff, err_buff, laser_amp_buff, running, status,
          message, cycle, hw_pll, pc, last, streak, latched, attrs>>

\* ---------------------------------------------------------------- helpers
Abs(x) == IF x < 0 THEN -x ELSE x

Min(a, b) == IF a < b THEN a ELSE b

RECURSIVE SeqSum(_)
SeqSum(s) == IF s = <<>> THEN 0 ELSE Head(s) + SeqSum(Tail(s))

\* the last k elements of s (all of s when it is shorter)
LastK(s, k) == SubSeq(s, Len(s) - Min(Len(s), k) + 1, Len(s))

\* the greatest common divisor of a >= 0 and b > 0
RECURSIVE Gcd(_, _)
Gcd(a, b) == IF a = 0 THEN b ELSE Gcd(b % a, a)

\* the double nearest to n/d, kept as the fraction in lowest terms
Quotient(n, d) ==
    LET g == Gcd(Abs(n), d)
    IN [num |-> n \div g, den |-> d \div g]

\* np.mean(buf) of a non-empty buffer: the sum is exact, the division rounds
\* to the nearest double
Mean(buf) == Quotient(SeqSum(buf), Len(buf))

\* Python's `x or default` on a number: 0 is falsy
OrDefault(x, default) == IF x = 0 THEN default ELSE x

PushMutGe(buf, v, cap) ==
    IF Len(buf) + 1 >= cap THEN Tail(Append(buf, v)) ELSE Append(buf, v)

\* buf.append(v); if len(buf) > cap: buf.pop(0)
Push(buf, v, cap) ==
    LET b == Append(buf, v)
    IN IF Len(b) > cap THEN Tail(b) ELSE b

\* sum(1 for e in self.err_buff if e > pll_err_tsh)
CountOver(buf, tsh) == Cardinality({i \in 1..Len(buf) : buf[i] > tsh})

\* sum(1 for a in self.laser_amp_buff if a < laser_amp_tsh)
CountUnder(buf, tsh) == Cardinality({i \in 1..Len(buf) : buf[i] < tsh})

\* ------------------------------------------------------------ configuration
\* values the threshold PVs may be configured with; TRACKING_TSH in units of
\* 0.0125: 0, 0.1, 0.125
ErrTshVals == {0, 1}
AmpTshVals == {0, 1}
TrackTshVals == {0, 8, 10}
TrackStepVals == {0, 2}

\* parameters of initialize(): the three name bindings (empty = FALSE), the
\* two capacities, and the configured values of the threshold PVs
AllConfigs ==
    [rp : BOOLEAN, motor : BOOLEAN, amp : BOOLEAN,
     avg_num : 1..MaxCap, L : 1..MaxCap,
     err_tsh : ErrTshVals, amp_tsh : AmpTshVals,
     track_tsh : TrackTshVals, track_step : TrackStepVals]

BaseConfig ==
    [rp |-> TRUE, motor |-> TRUE, amp |-> TRUE, avg_num |-> 1, L |-> 1,
     err_tsh |-> 1, amp_tsh |-> 1, track_tsh |-> 8, track_step |-> 2]

\* the configurations that differ from BaseConfig in one parameter
Variants ==
    {c \in AllConfigs :
        Cardinality({f \in DOMAIN BaseConfig : c[f] # BaseConfig[f]}) = 1}

\* initialize() accepts whatever the parameters hold: a configuration with a
\* capacity that is not positive
InvalidConfigs == {[BaseConfig EXCEPT !.L = 0]}

\* the external actors: who re-arms or switches the PLL output ("pll"),
\* who writes TRACKING_ON, AVG_RESET and ENABLE, the stop request ("stop"),
\* and channel access calls that raise ("faults")
BaseEnv == {"pll", "TRACKING_ON"}

\* the explored runs <<configuration, actors>>: every one-parameter variant
\* and the invalid configuration with the PLL and the tracking operator;
\* BaseConfig with raising calls and one more actor; raising calls with the
\* averaging reset alone; the largest averaging window with the averaging
\* reset; a task without RedPitaya that is stopped
Scenarios ==
    ((Variants \cup {BaseConfig} \cup InvalidConfigs) \X {BaseEnv})
    \cup ({BaseConfig}
          \X {BaseEnv \cup {"faults", a} : a \in {"ENABLE", "stop"}})
    \cup {<<BaseConfig, {"faults", "AVG_RESET"}>>}
    \cup {<<[BaseConfig EXCEPT !.avg_num = MaxCap], BaseEnv \cup {"AVG_RESET"}>>}
    \cup {<<[BaseConfig EXCEPT !.rp = FALSE], {"stop"}>>}

\* ------------------------------------------------------ one cycle's inputs
\* what the external reads and writes of one cycle do: each caget returns a
\* value ("val"), returns None ("none") or raises; each caput succeeds or
\* raises.  Inputs that no statement reads (after a raise) keep DefaultIn's.
DefaultIn ==
    [pllSt |-> "val", acqSt |-> "ok",
     corrSt |-> "none", corrV |-> 1,
     ampSt |-> "none", ampV |-> 1,
     errSt |-> "none", errV |-> 1,
     forceSt |-> "ok", motorSt |-> "ok"]

CorrIn == {<<"none", 1>>} \cup ({"val"} \X CorrVals)

AmpIn == {<<"none", 1>>} \cup ({"val"} \X AmpVals)

ErrIn == {<<"none", 1>>} \cup ({"val"} \X ErrVals)

WithReads(c, a, e) ==
    [DefaultIn EXCEPT !.corrSt = c[1], !.corrV = c[2],
                      !.ampSt = a[1], !.ampV = a[2],
                      !.errSt = e[1], !.errV = e[2]]

ReadsOk == {WithReads(c, a, e) : c \in CorrIn, a \in AmpIn, e \in ErrIn}

\* the inputs in which the PLL status is unusable or a call raises before
\* the interlock evaluation
ReadFaults ==
    {[DefaultIn EXCEPT !.pllSt = x] : x \in {"none", "raise"}}
    \cup {[DefaultIn EXCEPT !.acqSt = "raise"]}
    \cup {[DefaultIn EXCEPT !.corrSt = "raise"]}
    \cup {[WithReads(c, <<"none", 1>>, <<"none", 1>>) EXCEPT !.ampSt = "raise"] :
            c \in CorrIn}
    \cup {[WithReads(c, a, <<"none", 1>>) EXCEPT !.errSt = "raise"] :
            c \in CorrIn, a \in AmpIn}

\* the local state of one call of _process_cycle
CycleStart ==
    [pv |-> pv, corr_buff |-> corr_buff, err_buff |-> err_buff,
     laser_amp_buff |-> laser_amp_buff, hw_pll |-> hw_pll, message |-> message,
     pll_on |-> FALSE, pll_read |-> FALSE, tracking_on |-> 0, exc |-> "none",
     resetDone |-> FALSE, forceIssued |-> FALSE, tripped |-> FALSE,
     motorIssued |-> FALSE, motorStep |-> 0, msgSet |-> FALSE,
     corrSt |-> "skip", ampSt |-> "skip", errSt |-> "skip"]

\* a statement raised: the rest of _process_cycle is skipped
Raise(s, where) == [s EXCEPT !.exc = where]

\* the outcome of one of the three sample reads: "val", "none", "raise", or
\* "skip" when the call did not execute the read
Read(s, which, st) == [s EXCEPT ![which] = st]

\* pll_on = caget(DIGITAL_P4_STATE_STATUS); set_pv('PLL_ON', int(pll_on))
\* (a None result makes int(pll_on) raise)
ReadPll(s, in) ==
    IF s.exc # "none" THEN s
    ELSE IF ~cfg.rp
         THEN [s EXCEPT !.pll_on = FALSE, !.pv.PLL_ON = 0]
    ELSE IF in.pllSt # "val" THEN Raise(s, "pll")
    ELSE [s EXCEPT !.pll_on = s.hw_pll, !.pll_read = s.hw_pll,
                   !.pv.PLL_ON = IF s.hw_pll THEN 1 ELSE 0]

\* if get_pv('AVG_RESET'): corr_buff = []; set_pv('AVG_RESET', 0)
AvgReset(s, in) ==
    IF s.exc # "none" THEN s
    ELSE IF s.pv.AVG_RESET # 0
         THEN [s EXCEPT !.corr_buff = <<>>, !.pv.AVG_RESET = 0,
                        !.resetDone = TRUE]
    ELSE s

\* caput(START_SS_ACQ_CMD); wave_corr = caget(IN2_DATA_MONITOR); CORR,
\* corr_buff and CORR_AVG are updated when a waveform was returned
AcquireCorr(s, in) ==
    IF s.exc # "none" \/ ~cfg.rp THEN s
    ELSE IF in.acqSt = "raise" THEN Raise(s, "acq")
    ELSE IF in.corrSt = "raise" THEN Read(Raise(s, "corr"), "corrSt", "raise")
    ELSE IF in.corrSt = "none" THEN Read(s, "corrSt", "none")
    ELSE LET b == Push(s.corr_buff, in.corrV, cfg.avg_num)
         IN [s EXCEPT !.pv.CORR = in.corrV, !.corr_buff = b,
                      !.pv.CORR_AVG = Mean(b), !.corrSt = "val"]

\* laser_amp = caget(pv_laser_amp_llrf), pushed when not None
UpdateAmp(s, in) ==
    IF s.exc # "none" \/ ~cfg.amp THEN s
    ELSE IF in.ampSt = "raise" THEN Read(Raise(s, "amp"), "ampSt", "raise")
    ELSE IF in.ampSt = "none" THEN Read(s, "ampSt", "none")
    ELSE [s EXCEPT !.laser_amp_buff = Push(s.laser_amp_buff, in.ampV, cfg.L),
                   !.ampSt = "val"]

UpdateErrMutZero(s, in) ==
    IF s.exc # "none" \/ ~cfg.rp THEN s
    ELSE IF in.errSt = "raise" THEN Read(Raise(s, "err"), "errSt", "raise")
    ELSE IF in.errSt = "none"
         THEN [Read(s, "errSt", "none") EXCEPT
                  !.err_buff = Push(s.err_buff, 0, cfg.L)]
    ELSE [s EXCEPT !.err_buff = Push(s.err_buff, in.errV, cfg.L),
                   !.errSt = "val"]

\* wave_err = caget(IN1_DATA_MONITOR), np.max(wave_err) pushed when not None
UpdateErr(s, in) ==
    IF s.exc # "none" \/ ~cfg.rp THEN s
    ELSE IF in.errSt = "raise" THEN Read(Raise(s, "err"), "errSt", "raise")
    ELSE IF in.errSt = "none" THEN Read(s, "errSt", "none")
    ELSE [s EXCEPT !.err_buff = Push(s.err_buff, in.errV, cfg.L),
                   !.errSt = "val"]

\* get_pv('PLL_ERR_TSH') or 1.0, in units of 1.0
DefaultPllErrTsh == 1

\* get_pv('LASER_AMP_TSH') or 0.0, in units of 1.0
DefaultLaserAmpTsh == 0

\* the thresholds the interlock compares with
PllErrTsh(p) == OrDefault(p.PLL_ERR_TSH, DefaultPllErrTsh)

LaserAmpTsh(p) == OrDefault(p.LASER_AMP_TSH, DefaultLaserAmpTsh)

\* err_count == L or amp_count == L
TripCond(s) ==
    \/ CountOver(s.err_buff, PllErrTsh(s.pv)) = cfg.L
    \/ CountUnder(s.laser_amp_buff, LaserAmpTsh(s.pv)) = cfg.L

\* the effect of caput(DIGITAL_P4_STATE_CMD, "0") on the hardware output
ForceOff(hw) == FALSE

InterlockMutNoPllGuard(s, in) ==
    IF s.exc # "none" THEN s
    ELSE IF ~TripCond(s) THEN s
    ELSE [s EXCEPT !.forceIssued = cfg.rp,
                   !.hw_pll = IF cfg.rp THEN ForceOff(s.hw_pll) ELSE s.hw_pll,
                   !.tripped = TRUE, !.pll_on = FALSE]

InterlockMutRewritePllOn(s, in) ==
    IF s.exc # "none" \/ ~s.pll_on THEN s
    ELSE IF ~TripCond(s) THEN s
    ELSE IF cfg.rp /\ in.forceSt = "raise"
         THEN [Raise(s, "force") EXCEPT !.forceIssued = TRUE]
    ELSE [s EXCEPT !.forceIssued = cfg.rp,
                   !.hw_pll = IF cfg.rp THEN ForceOff(s.hw_pll) ELSE s.hw_pll,
                   !.tripped = TRUE, !.pll_on = FALSE, !.pv.PLL_ON = 0]

\* if pll_on: ... caput(DIGITAL_P4_STATE_CMD, "0"); pll_on = False
Interlock(s, in) ==
    IF s.exc # "none" \/ ~s.pll_on THEN s
    ELSE IF ~TripCond(s) THEN s
    ELSE IF cfg.rp /\ in.forceSt = "raise"
         THEN [Raise(s, "force") EXCEPT !.forceIssued = TRUE]
    ELSE [s EXCEPT !.forceIssued = cfg.rp,
                   !.hw_pll = IF cfg.rp THEN ForceOff(s.hw_pll) ELSE s.hw_pll,
                   !.tripped = TRUE, !.pll_on = FALSE]

DisableTrackingMutSkip(s, in) == s

DisableTrackingMutRearm(s, in) ==
    IF s.exc # "none" THEN s
    ELSE [s EXCEPT !.pv.TRACKING_ON = IF s.pll_on THEN 1 ELSE 0]

\* if not pll_on: set_pv('TRACKING_ON', 0)
DisableTracking(s, in) ==
    IF s.exc # "none" THEN s
    ELSE IF ~s.pll_on THEN [s EXCEPT !.pv.TRACKING_ON = 0]
    ELSE s

\* get_pv('TRACKING_TSH') or 0.1, in units of 0.0125
DefaultTrackingTsh == 8

\* get_pv('TRACKING_STEP') or 0.01, in units of 0.01
DefaultTrackingStep == 1

\* the dead band and the step size the tracking step uses
TrackingTsh(p) == OrDefault(p.TRACKING_TSH, DefaultTrackingTsh)

TrackingStep(p) == OrDefault(p.TRACKING_STEP, DefaultTrackingStep)

\* abs(corr_avg) > tsh for corr_avg in correction units (5 threshold units
\* each) and tsh in threshold units
AbsExceeds(avg, tsh) == 5 * Abs(avg.num) > tsh * avg.den

\* abs(corr_avg) > tracking_tsh, with corr_avg = CORR_AVG or 0.0
OutsideDeadband(p) == AbsExceeds(p.CORR_AVG, TrackingTsh(p))

\* step = tracking_step if corr_avg > 0 else -tracking_step
SignedStep(p) ==
    IF p.CORR_AVG.num > 0 THEN TrackingStep(p) ELSE -TrackingStep(p)

\* tracking_on = get_pv('TRACKING_ON'); the motor step when outside the
\* dead band and a motor is bound
Tracking(s, in) ==
    IF s.exc # "none" THEN s
    ELSE LET t == [s EXCEPT !.tracking_on = s.pv.TRACKING_ON]
         IN IF t.tracking_on # 0 /\ OutsideDeadband(t.pv) /\ cfg.motor
            THEN LET m == [t EXCEPT !.motorIssued = TRUE,
                                    !.motorStep = SignedStep(t.pv)]
                 IN IF in.motorSt = "raise" THEN Raise(m, "motor") ELSE m
            ELSE t

\* set_message(f"PLL:{..} Track:{..}")
CycleMessage(s, in) ==
    IF s.exc # "none" THEN s
    ELSE [s EXCEPT !.message = [kind |-> "cycle", pll |-> s.pll_on,
                                track |-> s.tracking_on # 0],
                   !.msgSet = TRUE]

\* LaserSynchTask._process_cycle
ProcessCycle(s, in) ==
    CycleMessage(Tracking(DisableTracking(Interlock(UpdateErr(UpdateAmp(
        AcquireCorr(AvgReset(ReadPll(s, in), in), in), in), in), in), in), in), in)

\* ------------------------------------------------------------ observation
\* LaserSynchTask has no attributes besides the ones above
NoAttrs == [task |-> "laser"]

NoTick ==
    [kind |-> "none", status0 |-> "RUNNING",
     exc |-> "none", pll_read |-> FALSE, track0 |-> 0,
     resetDone |-> FALSE, forceIssued |-> FALSE, tripped |-> FALSE,
     motorIssued |-> FALSE, motorStep |-> 0, tracking_on |-> 0,
     msgSet |-> FALSE, corrSt |-> "skip", ampSt |-> "skip", errSt |-> "skip",
     corrV |-> 0, ampV |-> 0, errV |-> 0,
     len0 |-> [corr |-> 0, amp |-> 0, err |-> 0]]

\* what one call of _process_cycle did, from its result r and its inputs
Observed(r, in) ==
    [kind |-> "cycle", status0 |-> status,
     exc |-> r.exc, pll_read |-> r.pll_read,
     track0 |-> pv.TRACKING_ON,
     resetDone |-> r.resetDone, forceIssued |-> r.forceIssued,
     tripped |-> r.tripped, motorIssued |-> r.motorIssued,
     motorStep |-> r.motorStep, tracking_on |-> r.tracking_on,
     msgSet |-> r.msgSet,
     corrSt |-> r.corrSt, ampSt |-> r.ampSt, errSt |-> r.errSt,
     corrV |-> IF r.corrSt = "val" THEN in.corrV ELSE 0,
     ampV |-> IF r.ampSt = "val" THEN in.ampV ELSE 0,
     errV |-> IF r.errSt = "val" THEN in.errV ELSE 0,
     len0 |-> [corr |-> Len(corr_buff), amp |-> Len(laser_amp_buff),
               err |-> Len(err_buff)]]

StreakAfter(o) ==
    LET live == o.exc = "none" /\ o.pll_read
        errViol == o.errSt = "val" /\ o.errV > cfg.err_tsh
        ampViol == o.ampSt = "val" /\ o.ampV < cfg.amp_tsh
    IN [err |-> IF live /\ errViol THEN Min(streak.err + 1, cfg.L) ELSE 0,
        amp |-> IF live /\ ampViol THEN Min(streak.amp + 1, cfg.L) ELSE 0]

\* ------------------------------------------------------------------ actions
StepCycleMutAlways(c, raised) == c + 1

\* the counter after run()'s try block: step_cycle() only when
\* _process_cycle returned
StepCycle(c, raised) == IF raised THEN c ELSE c + 1

\* the state after construction and initialize() in one of the runs of S
InitIn(S) ==
    /\ \E sc \in S : cfg = sc[1] /\ env = sc[2]
    /\ pv \in [ENABLE : {1}, TRACKING_ON : {1}, AVG_RESET : {0}, PLL_ON : {0},
               CORR : {0}, CORR_AVG : {[num |-> 0, den |-> 1]},
               PLL_ERR_TSH : {cfg.err_tsh}, LASER_AMP_TSH : {cfg.amp_tsh},
               TRACKING_TSH : {cfg.track_tsh},
               TRACKING_STEP : {cfg.track_step}]
    /\ corr_buff = <<>>
    /\ err_buff = <<>>
    /\ laser_amp_buff = <<>>
    /\ running = TRUE
    /\ status = "RUNNING"
    /\ message = [kind |-> "init", pll |-> FALSE, track |-> FALSE]
    /\ cycle = 0
    /\ hw_pll \in BOOLEAN
    /\ pc = "idle"
    /\ last = NoTick
    /\ streak = [err |-> 0, amp |-> 0]
    /\ latched = FALSE
    /\ attrs = NoAttrs

Init == InitIn(Scenarios)

RunSkipMutCount ==
    /\ pc = "idle" /\ running
    /\ pv.ENABLE = 0
    /\ pc' = "done"
    /\ cycle' = cycle + 1
    /\ last' = [NoTick EXCEPT !.kind = "skip"]
    /\ UNCHANGED <<cfg, env, pv, corr_buff, err_buff, laser_amp_buff, running,
                   status, message, hw_pll, streak, latched, attrs>>

\* run(): a tick with ENABLE false sleeps and continues
RunSkip ==
    /\ pc = "idle" /\ running
    /\ pv.ENABLE = 0
    /\ pc' = "done"
    /\ last' = [NoTick EXCEPT !.kind = "skip"]
    /\ UNCHANGED <<cfg, env, pv, corr_buff, err_buff, laser_amp_buff, running,
                   status, message, cycle, hw_pll, streak, latched, attrs>>

AfterCycleMutClearStatus(r, o, in) ==
    /\ pv' = r.pv
    /\ corr_buff' = r.corr_buff
    /\ err_buff' = r.err_buff
    /\ laser_amp_buff' = r.laser_amp_buff
    /\ hw_pll' = r.hw_pll
    /\ cycle' = StepCycle(cycle, o.exc # "none")
    /\ status' = IF o.exc # "none" THEN "ERROR" ELSE "RUNNING"
    /\ message' = IF o.exc # "none"
                  THEN [kind |-> "error", pll |-> FALSE, track |-> FALSE]
                  ELSE r.message
    /\ last' = o
    /\ streak' = StreakAfter(o)
    /\ latched' = (latched \/ o.forceIssued \/ o.tripped)

\* the rest of the tick once _process_cycle ended in r: step_cycle() when it
\* returned, set_status('ERROR') and set_message when it raised
AfterCycle(r, o, in) ==
    /\ pv' = r.pv
    /\ corr_buff' = r.corr_buff
    /\ err_buff' = r.err_buff
    /\ laser_amp_buff' = r.laser_amp_buff
    /\ hw_pll' = r.hw_pll
    /\ cycle' = StepCycle(cycle, o.exc # "none")
    /\ status' = IF o.exc # "none" THEN "ERROR" ELSE status
    /\ message' = IF o.exc # "none"
                  THEN [kind |-> "error", pll |-> FALSE, track |-> FALSE]
                  ELSE r.message
    /\ last' = o
    /\ streak' = StreakAfter(o)
    /\ latched' = (latched \/ o.forceIssued \/ o.tripped)

\* the outcomes of one call with the reads of `in`: r is the call in which
\* every caput succeeds; a caput the call issues may raise instead
CycleOutcomes(r, in) ==
    \/ AfterCycle(r, Observed(r, in), in)
    \/ /\ "faults" \in env /\ r.forceIssued
       /\ LET f == [in EXCEPT !.forceSt = "raise"]
              rf == ProcessCycle(CycleStart, f)
          IN AfterCycle(rf, Observed(rf, f), f)
    \/ /\ "faults" \in env /\ r.motorIssued
       /\ LET m == [in EXCEPT !.motorSt = "raise"]
              rm == ProcessCycle(CycleStart, m)
          IN AfterCycle(rm, Observed(rm, m), m)

RunCycleMutIgnoreStop ==
    /\ pc = "idle"
    /\ pv.ENABLE # 0
    /\ cycle < MaxCycle
    /\ \E in \in ReadsOk \cup (IF "faults" \in env THEN ReadFaults ELSE {}) :
         CycleOutcomes(ProcessCycle(CycleStart, in), in)
    /\ pc' = "done"
    /\ UNCHANGED <<cfg, env, running, attrs>>

\* run(): a tick with ENABLE true calls _process_cycle inside try/except
RunCycle ==
    /\ pc = "idle" /\ running
    /\ pv.ENABLE # 0
    /\ cycle < MaxCycle
    /\ \E in \in ReadsOk \cup (IF "faults" \in env THEN ReadFaults ELSE {}) :
         CycleOutcomes(ProcessCycle(CycleStart, in), in)
    /\ pc' = "done"
    /\ UNCHANGED <<cfg, env, running, attrs>>

SleepMutStallOnError ==
    /\ pc = "done" /\ last.exc = "none"
    /\ pc' = "idle"
    /\ last' = NoTick
    /\ UNCHANGED <<cfg, env, pv, corr_buff, err_buff, laser_amp_buff, running,
                   status, message, cycle, hw_pll, streak, latched, attrs>>

\* cothread.Sleep(self.loop_period): the loop yields until the next tick
Sleep ==
    /\ pc = "done"
    /\ pc' = "idle"
    /\ last' = NoTick
    /\ UNCHANGED <<cfg, env, pv, corr_buff, err_buff, laser_amp_buff, running,
                   status, message, cycle, hw_pll, streak, latched, attrs>>

CleanupMutNoForce ==
    /\ pc = "idle" /\ ~running
    /\ last' = [NoTick EXCEPT !.kind = "cleanup", !.status0 = status]
    /\ status' = "END"
    /\ message' = [kind |-> "stopped", pll |-> FALSE, track |-> FALSE]
    /\ pc' = "stopped"
    /\ UNCHANGED <<cfg, env, pv, corr_buff, err_buff, laser_amp_buff, running,
                   cycle, hw_pll, streak, latched, attrs>>

\* the loop condition is false: run() returns and cleanup() is called
Cleanup ==
    /\ pc = "idle" /\ ~running
    /\ \E st \in {"ok", "raise"} :
         /\ hw_pll' = IF cfg.rp /\ st = "ok" THEN ForceOff(hw_pll) ELSE hw_pll
         /\ last' = [NoTick EXCEPT !.kind = "cleanup", !.status0 = status,
                                   !.forceIssued = cfg.rp,
                                   !.exc = IF cfg.rp /\ st = "raise"
                                           THEN "force" ELSE "none"]
    /\ status' = "END"
    /\ message' = [kind |-> "stopped", pll |-> FALSE, track |-> FALSE]
    /\ pc' = "stopped"
    /\ UNCHANGED <<cfg, env, pv, corr_buff, err_buff, laser_amp_buff, running,
                   cycle, streak, latched, attrs>>

\* a stop request: the framework clears self.running.  It may arrive while
\* the tick's work is in flight or during the sleep; run() reads the flag only
\* in the loop condition, so a request during the cycle acts as one right
\* after it
Stop ==
    /\ pc \in {"idle", "done"} /\ running
    /\ "stop" \in env
    /\ running' = FALSE
    /\ UNCHANGED <<cfg, env, pv, corr_buff, err_buff, laser_amp_buff, status,
                   message, cycle, hw_pll, pc, last, streak, latched, attrs>>

\* an operator writes one of the task's control PVs while run() sleeps
WritePv ==
    /\ pc = "idle" /\ running
    /\ \E n \in env \cap {"ENABLE", "TRACKING_ON", "AVG_RESET"} :
         pv' = [pv EXCEPT ![n] = 1 - pv[n]]
    /\ UNCHANGED <<cfg, env, corr_buff, err_buff, laser_amp_buff, running, status,
                   message, cycle, hw_pll, pc, last, streak, latched, attrs>>

\* the PLL output is switched from outside the task (the explicit re-arm
\* after an interlock, or an operator switching it off)
ExternalPll ==
    /\ pc = "idle" /\ running
    /\ "pll" \in env
    /\ hw_pll' = ~hw_pll
    /\ latched' = FALSE
    /\ UNCHANGED <<cfg, env, pv, corr_buff, err_buff, laser_amp_buff, running,
                   status, message, cycle, pc, last, streak, attrs>>

Next ==
    \/ RunSkip
    \/ RunCycle
    \/ Sleep
    \/ Cleanup
    \/ Stop
    \/ WritePv
    \/ ExternalPll

Spec == Init /\ [][Next]_vars

\* the run in which channel access calls may raise while the PLL is switched,
\* the task is enabled and disabled, and a stop may be requested
LiveScenarios == {<<BaseConfig, {"pll", "faults", "ENABLE", "stop"}>>}

InitLive == InitIn(LiveScenarios)

\* the step of run() from the loop condition to the sleep: the steps of Next
\* that satisfy it are those of RunCycle and RunSkip, and it is enabled
\* exactly when one of them is
TickStep ==
    /\ pc = "idle" /\ running
    /\ (pv.ENABLE = 0 \/ cycle < MaxCycle)
    /\ pc' = "done"

\* run() under its scheduler: cothread.Sleep returns, and the loop then
\* evaluates its condition and runs the tick
SpecLive ==
    /\ InitLive
    /\ [][Next]_vars
    /\ WF_vars(Sleep)
    /\ WF_pc(TickStep)

\* ============================================== the other three tasks
\* MonitoringTask, DataLoggingTask and CheckMotorMovement are TaskBase tasks
\* too: running, pv, status, message and cycle are the task's own, cfg holds
\* its parameters and attrs its instance attributes.  The variables that
\* belong to LaserSynchTask alone keep their initial values.

\* the logging clock (cothread.GetTime, in sleeps of 0.5 s) is explored up to
MaxTime == 3
\* the motor task's run loop is explored until its counter reaches this value
MaxMotorCycle == 12

TaskMsg(k) == [kind |-> k, pll |-> FALSE, track |-> FALSE]

TaskInit ==
    /\ env = {}
    /\ corr_buff = <<>>
    /\ err_buff = <<>>
    /\ laser_amp_buff = <<>>
    /\ hw_pll = FALSE
    /\ streak = [err |-> 0, amp |-> 0]
    /\ latched = FALSE
    /\ running = TRUE
    /\ status = "RUNNING"
    /\ message = TaskMsg("init")
    /\ cycle = 0
    /\ pc = "idle"
    /\ last = NoTick

LaserUnused ==
    UNCHANGED <<cfg, env, corr_buff, err_buff, laser_amp_buff, hw_pll, streak,
                latched>>

\* ------------------------------------------------------- MonitoringTask
\* the values of INPUT1..INPUT3
MonInVals == {0, 1, 2}

\* calculation_type ("other": any string the chain of elifs does not know)
CalcTypes == {"average", "sum", "max", "min", "other"}

Max3(a, b, c) ==
    IF a >= b /\ a >= c THEN a ELSE IF b >= c THEN b ELSE c

Min3(a, b, c) ==
    IF a <= b /\ a <= c THEN a ELSE IF b <= c THEN b ELSE c

\* the result of the calculation, as an exact fraction
Calc(type, a, b, c) ==
    CASE type = "average" -> [num |-> a + b + c, den |-> 3]
      [] type = "sum" -> [num |-> a + b + c, den |-> 1]
      [] type = "max" -> [num |-> Max3(a, b, c), den |-> 1]
      [] type = "min" -> [num |-> Min3(a, b, c), den |-> 1]
      [] OTHER -> [num |-> 0, den |-> 1]

\* where MonitoringTask._process_cycle may raise inside its try block: not
\* at all, before OUTPUT_RESULT is set, or in set_pv('SAMPLE_COUNT')
MonExc == {"none", "compute", "publish"}

MonInit ==
    /\ TaskInit
    /\ cfg \in [calculation_type : CalcTypes]
    /\ attrs = [task |-> "monitoring", sample_count |-> 0]
    /\ pv = [ENABLE |-> 1, OUTPUT_RESULT |-> [num |-> 0, den |-> 1],
             SAMPLE_COUNT |-> 0]

\* MonitoringTask._process_cycle: the exception is handled inside, the call
\* always returns
MonProcessCycle(a, b, c, exc) ==
    LET res == Calc(cfg.calculation_type, OrDefault(a, 0), OrDefault(b, 0),
                    OrDefault(c, 0))
        n == attrs.sample_count + 1
    IN /\ pv' = CASE exc = "none" ->
                       [pv EXCEPT !.OUTPUT_RESULT = res, !.SAMPLE_COUNT = n]
                  [] exc = "publish" -> [pv EXCEPT !.OUTPUT_RESULT = res]
                  [] OTHER -> pv
       /\ attrs' = IF exc = "compute" THEN attrs
                   ELSE [attrs EXCEPT !.sample_count = n]
       /\ status' = IF exc = "none" THEN status ELSE "ERROR"
       /\ message' = IF exc = "none" THEN TaskMsg("cycle") ELSE TaskMsg("error")

\* MonitoringTask.run, a tick with ENABLE true: _process_cycle(), step_cycle()
MonTick ==
    /\ attrs.task = "monitoring"
    /\ pc = "idle" /\ running
    /\ pv.ENABLE # 0
    /\ cycle < MaxCycle
    /\ \E a \in MonInVals, b \in MonInVals, c \in MonInVals, exc \in MonExc :
         /\ MonProcessCycle(a, b, c, exc)
         /\ last' = [NoTick EXCEPT !.kind = "cycle", !.status0 = status,
                                   !.exc = exc]
    /\ cycle' = StepCycle(cycle, FALSE)
    /\ pc' = "done"
    /\ UNCHANGED running
    /\ LaserUnused

\* handle_pv_write('RESET', 1)
MonReset ==
    /\ attrs.task = "monitoring"
    /\ pc = "idle" /\ running
    /\ attrs.sample_count > 0
    /\ attrs' = [attrs EXCEPT !.sample_count = 0]
    /\ pv' = [pv EXCEPT !.SAMPLE_COUNT = 0]
    /\ UNCHANGED <<running, status, message, cycle, pc, last>>
    /\ LaserUnused

\* ------------------------------------------------------ DataLoggingTask
\* log_interval in sleeps of 0.5 s
LogIntervals == {0, 2}

LogFormats == {"csv", "txt"}

LogInit ==
    /\ TaskInit
    /\ cfg \in [log_interval : LogIntervals, log_format : LogFormats]
    /\ attrs = [task |-> "logging", log_count |-> 0, last_log_time |-> 0,
                now |-> 0,
                lines |-> IF cfg.log_format = "csv" THEN 1 ELSE 0]
    /\ pv = [ENABLE |-> 1, LOG_COUNT |-> 0, LAST_LOG_TIME |-> 0]

\* enabled and time_since_last_log >= self.log_interval
LogDue ==
    pv.ENABLE # 0 /\ attrs.now - attrs.last_log_time >= cfg.log_interval

\* DataLoggingTask._log_data: a failing file write is handled inside, the
\* call always returns
LogData(exc) ==
    /\ pv' = IF exc = "none"
             THEN [pv EXCEPT !.LOG_COUNT = attrs.log_count + 1,
                             !.LAST_LOG_TIME = attrs.now]
             ELSE pv
    /\ attrs' = IF exc = "none"
                THEN [attrs EXCEPT !.lines = @ + 1, !.log_count = @ + 1,
                                   !.last_log_time = attrs.now]
                ELSE [attrs EXCEPT !.last_log_time = attrs.now]
    /\ status' = IF exc = "none" THEN status ELSE "ERROR"
    /\ message' = IF exc = "none" THEN message ELSE TaskMsg("error")

\* DataLoggingTask.run, a tick on which a log entry is due: _log_data(),
\* last_log_time = current_time, step_cycle()
LogTick ==
    /\ attrs.task = "logging"
    /\ pc = "idle" /\ running
    /\ LogDue
    /\ cycle < MaxCycle
    /\ \E exc \in {"none", "write"} :
         /\ LogData(exc)
         /\ last' = [NoTick EXCEPT !.kind = "cycle", !.status0 = status,
                                   !.exc = exc]
    /\ cycle' = StepCycle(cycle, FALSE)
    /\ pc' = "done"
    /\ UNCHANGED running
    /\ LaserUnused

\* handle_pv_write('RESET_COUNT', 1)
LogReset ==
    /\ attrs.task = "logging"
    /\ pc = "idle" /\ running
    /\ attrs.log_count > 0
    /\ attrs' = [attrs EXCEPT !.log_count = 0]
    /\ pv' = [pv EXCEPT !.LOG_COUNT = 0]
    /\ UNCHANGED <<running, status, message, cycle, pc, last>>
    /\ LaserUnused

\* --------------------------------------------------- CheckMotorMovement
\* motor_moved_callback acts only when get_cycle() > 10
GraceCycles == 10

\* the switch-off devices found by initialize(), in the order of
\* self.switches
Switches == <<"sw1", "sw2">>

\* a device is 1 (open) until sw.set(0) closes it
SwOpen == [n \in {Switches[i] : i \in 1..Len(Switches)} |-> 1]

\* the callback is not running
CbIdle == [pc |-> "idle", todo |-> <<>>, sawCycle |-> 0, sawEnable |-> FALSE,
           nset |-> 0]

MotorInit ==
    /\ TaskInit
    /\ cfg = [motors |-> <<"m1">>, switchoff |-> Switches]
    /\ attrs = [task |-> "motor", previous_moving |-> FALSE, sw |-> SwOpen,
                cb |-> CbIdle]
    /\ pv = [ENABLE |-> 1, MOVING |-> 0]

\* CheckMotorMovement.run, a tick with ENABLE true: _monitor_motors() reads
\* the motor's moving flag (an exception is handled per motor, inside), then
\* step_cycle()
MotorTick ==
    /\ attrs.task = "motor"
    /\ pc = "idle" /\ running
    /\ pv.ENABLE # 0
    /\ cycle < MaxMotorCycle
    /\ \E mv \in {"moving", "still", "raise"} :
         /\ attrs' = IF mv = "raise" THEN attrs
                     ELSE [attrs EXCEPT !.previous_moving = (mv = "moving")]
         /\ pv' = IF mv = "raise" THEN pv
                  ELSE [pv EXCEPT !.MOVING = IF mv = "moving" THEN 1 ELSE 0]
         /\ last' = [NoTick EXCEPT !.kind = "cycle", !.status0 = status]
    /\ cycle' = StepCycle(cycle, FALSE)
    /\ pc' = "done"
    /\ UNCHANGED <<running, status, message>>
    /\ LaserUnused

CycleGateMutGe(c) == c >= GraceCycles

\* if self.get_cycle() > 10
CycleGate(c) == c > GraceCycles

\* the steps of the callback leave the run loop's state alone
CbFrame ==
    /\ UNCHANGED <<pv, running, status, message, cycle, pc, last>>
    /\ LaserUnused

\* a readback update calls motor_moved_callback, which reads the counter; it
\* returns at once when the gate is closed.  The subscription is made by
\* run() and is never removed (cleanup() does not unsubscribe): the updates
\* arrive whatever the loop is doing, and after cleanup() as well.
CbStart ==
    /\ attrs.task = "motor"
    /\ attrs.cb.pc = "idle"
    /\ attrs' = [attrs EXCEPT !.cb =
                    IF CycleGate(cycle)
                    THEN [CbIdle EXCEPT !.pc = "gate", !.sawCycle = cycle]
                    ELSE [CbIdle EXCEPT !.sawCycle = cycle]]
    /\ CbFrame

\* if not self.get_pv('ENABLE'): return
CbEnable ==
    /\ attrs.task = "motor"
    /\ attrs.cb.pc = "gate"
    /\ attrs' = [attrs EXCEPT !.cb =
                    IF pv.ENABLE # 0
                    THEN [@ EXCEPT !.pc = "set", !.todo = Switches,
                                   !.sawEnable = TRUE]
                    ELSE [@ EXCEPT !.pc = "idle"]]
    /\ CbFrame

\* one iteration of the loop over self.switches: sw.set(0) takes effect or
\* raises (handled inside the loop); the callback returns after the last one
CbSet ==
    /\ attrs.task = "motor"
    /\ attrs.cb.pc = "set"
    /\ \E st \in {"ok", "raise"} :
         LET n == Head(attrs.cb.todo)
             rest == Tail(attrs.cb.todo)
         IN attrs' = [attrs EXCEPT
                        !.sw[n] = IF st = "ok" THEN 0 ELSE @,
                        !.cb = [@ EXCEPT !.todo = rest,
                                         !.nset = @ + 1,
                                         !.pc = IF rest = <<>> THEN "idle"
                                                ELSE "set"]]
    /\ CbFrame

\* ------------------------------------------------- steps common to the three
\* a tick that does no cycle work: ENABLE is false (DataLoggingTask: or no
\* log entry is due)
TaskSkip ==
    /\ attrs.task \in {"monitoring", "logging", "motor"}
    /\ pc = "idle" /\ running
    /\ IF attrs.task = "logging" THEN ~LogDue ELSE pv.ENABLE = 0
    /\ pc' = "done"
    /\ last' = [NoTick EXCEPT !.kind = "skip"]
    /\ UNCHANGED <<pv, attrs, running, status, message, cycle>>
    /\ LaserUnused

\* cothread.Sleep: the loop yields until the next tick; the clock advances
TaskSleep ==
    /\ attrs.task \in {"monitoring", "logging", "motor"}
    /\ pc = "done"
    /\ attrs.task = "logging" => attrs.now < MaxTime
    /\ pc' = "idle"
    /\ last' = NoTick
    /\ attrs' = IF attrs.task = "logging"
                THEN [attrs EXCEPT !.now = @ + 1] ELSE attrs
    /\ UNCHANGED <<pv, running, status, message, cycle>>
    /\ LaserUnused

\* an operator writes ENABLE, at any time
TaskWriteEnable ==
    /\ attrs.task \in {"monitoring", "logging", "motor"}
    /\ pc # "stopped"
    /\ pv' = [pv EXCEPT !.ENABLE = 1 - @]
    /\ UNCHANGED <<attrs, running, status, message, cycle, pc, last>>
    /\ LaserUnused

\* a stop request: the framework clears self.running
TaskStop ==
    /\ attrs.task \in {"monitoring", "logging", "motor"}
    /\ pc \in {"idle", "done"} /\ running
    /\ running' = FALSE
    /\ UNCHANGED <<pv, attrs, status, message, cycle, pc, last>>
    /\ LaserUnused

\* run() returned; cleanup(): set_status('END'), set_message('Stopped')
TaskCleanup ==
    /\ attrs.task \in {"monitoring", "logging", "motor"}
    /\ pc = "idle" /\ ~running
    /\ status' = "END"
    /\ message' = TaskMsg("stopped")
    /\ pc' = "stopped"
    /\ last' = [NoTick EXCEPT !.kind = "cleanup", !.status0 = status]
    /\ UNCHANGED <<pv, attrs, running, cycle>>
    /\ LaserUnused

InitTasks == MonInit \/ LogInit \/ MotorInit

NextTasks ==
    \/ MonTick
    \/ MonReset
    \/ LogTick
    \/ LogReset
    \/ MotorTick
    \/ CbStart
    \/ CbEnable
    \/ CbSet
    \/ TaskSkip
    \/ TaskSleep
    \/ TaskWriteEnable
    \/ TaskStop
    \/ TaskCleanup

SpecTasks == InitTasks /\ [][NextTasks]_vars

\* ------------------------------------------------------------------ claims
\* the last tick was a call of _process_cycle
Cycled == last.kind = "cycle"

\* the call reached the interlock evaluation (lines 151-163)
ReachedInterlock == Cycled /\ last.exc \in {"none", "force", "motor"}

\* the call reached the tracking step (lines 169-179)
ReachedTracking == Cycled /\ last.exc \in {"none", "motor"}

\* the points of _process_cycle at which a read of an external signal raises
ReadExc == {"pll", "corr", "amp", "err"}

\* C1: no motor step is written in a cycle in which the interlock is engaged
\* (the force-off is issued in that cycle, or the PLL is read as off),
\* whatever the averaged correction and the initial TRACKING_ON
C1_NoStepWhileInterlocked ==
    (Cycled /\ (last.forceIssued \/ ~last.pll_read)) => ~last.motorIssued

C1_Witness ==
    /\ Cycled /\ last.tripped /\ last.track0 = 1
    /\ cfg.motor /\ OutsideDeadband(pv)

\* a full buffer in which every sample strictly violates the configured
\* threshold
ErrFullViolating ==
    /\ Len(err_buff) = cfg.L
    /\ \A i \in 1..Len(err_buff) : err_buff[i] > pv.PLL_ERR_TSH

AmpFullViolating ==
    /\ Len(laser_amp_buff) = cfg.L
    /\ \A i \in 1..Len(laser_amp_buff) : laser_amp_buff[i] < pv.LASER_AMP_TSH

\* C2: with the PLL active, the force-off is issued if and only if the error
\* buffer or the amplitude buffer is full of samples that strictly violate
\* the configured threshold, for every configured threshold including 0
C2_EngagesIffFullViolating ==
    (ReachedInterlock /\ last.pll_read) =>
        (last.forceIssued <=> (ErrFullViolating \/ AmpFullViolating))

\* C3: once the interlock has engaged (the trip condition was met with the
\* PLL on and the force-off was issued), the PLL stays off and every
\* completed cycle reports PLL off, leaves tracking off and writes no motor
\* step, whatever the buffers hold, until the PLL is re-armed from outside
C3_Latched ==
    latched =>
        /\ ~hw_pll
        /\ (Cycled /\ last.exc = "none") =>
              /\ ~message.pll
              /\ pv.TRACKING_ON = 0
              /\ ~last.motorIssued

\* C4: after L consecutive completed cycles with the PLL active that each
\* acquired a violating error sample (or each a violating amplitude sample)
\* the interlock has tripped
C4_TripsWithinL ==
    (Cycled /\ last.exc = "none" /\ last.pll_read
        /\ (streak.err = cfg.L \/ streak.amp = cfg.L)) => last.tripped

\* C5: every buffer holds the last min(n, capacity) pushed values in order:
\* a cycle that pushes v leaves the last `capacity` values of the previous
\* content followed by v, a cycle that pushes nothing leaves the content, and
\* no buffer is longer than its capacity
BufferAfter(before, pushed, v, cap) ==
    IF pushed THEN LastK(Append(before, v), cap) ELSE before

C5_BufferFifo ==
    [][(last'.kind = "cycle") =>
          /\ corr_buff' = BufferAfter(
                 IF last'.resetDone THEN <<>> ELSE corr_buff,
                 last'.corrSt = "val", last'.corrV, cfg.avg_num)
          /\ err_buff' = BufferAfter(err_buff, last'.errSt = "val",
                                     last'.errV, cfg.L)
          /\ laser_amp_buff' = BufferAfter(laser_amp_buff, last'.ampSt = "val",
                                           last'.ampV, cfg.L)
          /\ Len(corr_buff') <= cfg.avg_num
          /\ Len(err_buff') <= cfg.L
          /\ Len(laser_amp_buff') <= cfg.L]_vars

\* a push into a full buffer of the largest capacity evicted the oldest value
C5_Witness ==
    /\ Cycled /\ cfg.L = MaxCap
    /\ last.errSt = "val" /\ last.len0.err = cfg.L
    /\ err_buff[1] # err_buff[Len(err_buff)]

\* C6: a tick advances the cycle counter by one when the task is enabled and
\* _process_cycle returned, by zero otherwise; no step decrements it
C6_CounterStep ==
    [][/\ (pc = "idle" /\ pc' = "done") =>
             cycle' = cycle + (IF pv.ENABLE # 0 /\ last'.kind = "cycle"
                                  /\ last'.exc = "none" THEN 1 ELSE 0)
       /\ cycle' >= cycle]_vars

\* a cycle raised after an earlier one was counted
C6_Witness == Cycled /\ last.exc # "none" /\ cycle = 1

\* C7: a cycle in which a read raises leaves the three buffers and the
\* interlock state as they were
C7_FailedReadKeepsState ==
    [][(last'.kind = "cycle" /\ last'.exc \in ReadExc) =>
          UNCHANGED <<corr_buff, err_buff, laser_amp_buff, hw_pll, latched>>]_vars

\* C8: with tracking on and the interlock not engaged, the tracking step
\* writes one motor step of the configured size and the sign of the averaged
\* correction when abs(average) > configured dead band, and none otherwise
C8_TrackingStep ==
    (ReachedTracking /\ last.tracking_on # 0 /\ cfg.motor) =>
        IF AbsExceeds(pv.CORR_AVG, pv.TRACKING_TSH)
        THEN /\ last.motorIssued
             /\ Abs(last.motorStep) = pv.TRACKING_STEP
             /\ (last.motorStep > 0) = (pv.CORR_AVG.num > 0)
        ELSE ~last.motorIssued

\* C9: a read that raises is not fatal for the cycle: the remaining steps run
\* up to the status message and the cycle does not end in error
C9_FailedReadNotFatal ==
    (Cycled /\ last.exc \in ReadExc) => (last.msgSet /\ message.kind = "cycle")

\* C10: a force-off or motor write that raises does not stop the cycle: the
\* later steps run (TRACKING_ON is cleared after a failed force-off) and the
\* cycle does not end in error
C10_FailedWriteNotFatal ==
    (Cycled /\ (last.forceIssued \/ last.motorIssued)) =>
        /\ last.msgSet /\ message.kind = "cycle"
        /\ last.forceIssued => pv.TRACKING_ON = 0

\* the last tick was a call of _process_cycle that raised
ErrTick == Cycled /\ last.exc # "none"

\* C11: a cycle that raises sets status ERROR and an error message and leaves
\* the task running; the sleep then ends, and from there a further tick runs
\* unless a stop is requested (cycle < MaxCycle: the explored part of the run)
C11_ErrorNeverStalls ==
    /\ [](ErrTick => (status = "ERROR" /\ message.kind = "error"
                        /\ pc = "done"))
    /\ [][(pc = "idle" /\ ErrTick') => running']_vars
    /\ (ErrTick ~> (pc = "idle"))
    /\ ((pc = "idle" /\ running /\ status = "ERROR" /\ cycle < MaxCycle)
           ~> (pc = "done" \/ ~running))

\* a cycle completed after an earlier one had raised
C11_Witness ==
    Cycled /\ last.status0 = "ERROR" /\ last.exc = "none" /\ last.msgSet

\* C12 as claimed: whenever status is END, cleanup has issued the PLL
\* force-off write
C12_CleanupForcesOff ==
    status = "END" => (last.kind = "cleanup" /\ last.forceIssued)

\* C12 amended: with a RedPitaya prefix configured, whenever status is END
\* cleanup has issued the PLL force-off write (which may have raised), also
\* after a cycle that ended in error; status END is set by cleanup only
C12_CleanupForcesOffIfBound ==
    /\ status = "END" =>
          (pc = "stopped" /\ last.kind = "cleanup"
             /\ (cfg.rp => last.forceIssued))
    /\ (last.kind = "cleanup" /\ last.exc = "none" /\ cfg.rp) => ~hw_pll

\* stopped after a cycle that ended in error, with the force-off write raising
C12_Witness ==
    /\ status = "END" /\ cfg.rp
    /\ last.status0 = "ERROR" /\ last.exc = "force" /\ hw_pll

\* C13: a tick with ENABLE false issues no read or command and changes no
\* buffer, PV, status, message or counter; it only goes to the sleep
C13_DisabledTickIsNoop ==
    [][(pc = "idle" /\ running /\ pv.ENABLE = 0 /\ pc' = "done") =>
          /\ last'.kind = "skip"
          /\ ~last'.forceIssued /\ ~last'.motorIssued
          /\ last'.corrSt = "skip" /\ last'.ampSt = "skip"
          /\ last'.errSt = "skip"
          /\ UNCHANGED <<pv, corr_buff, err_buff, laser_amp_buff, status,
                         message, cycle, hw_pll, running>>]_vars

\* a disabled tick with a pending averaging state and the PLL on
C13_Witness ==
    /\ last.kind = "skip" /\ pc = "done" /\ pv.ENABLE = 0
    /\ hw_pll /\ Len(err_buff) > 0 /\ cycle > 0

\* C14: with a capacity that is not positive no control cycle is executed
C14_InvalidConfigNeverRuns ==
    (cfg.avg_num <= 0 \/ cfg.L <= 0) => (~Cycled /\ cycle = 0)

\* C15: a stop request changes nothing but the running flag, whenever it
\* arrives; once it is set no tick starts, the sleep in progress ends, and
\* the flag stays set
C15_CooperativeStop ==
    [][/\ (running /\ ~running') =>
             UNCHANGED <<pv, corr_buff, err_buff, laser_amp_buff, status,
                         message, cycle, hw_pll, pc, last>>
       /\ ~running =>
             /\ ~running'
             /\ pc' # pc => (<<pc, pc'>> \in {<<"done", "idle">>,
                                               <<"idle", "stopped">>})
             /\ UNCHANGED <<pv, corr_buff, err_buff, laser_amp_buff,
                            cycle>>]_vars

\* the stop request arrived before the sleep after a completed cycle ended
C15_Witness ==
    ~running /\ pc = "done" /\ Cycled /\ last.exc = "none" /\ last.msgSet

\* C16: a cycle whose read of a sample returns no value leaves that buffer
\* as it was (the correction buffer: as the averaging reset left it), and
\* with it the violation counts
C16_AbsentSampleKeepsBuffer ==
    [][(last'.kind = "cycle") =>
          /\ last'.errSt = "none" =>
                /\ err_buff' = err_buff
                /\ CountOver(err_buff', PllErrTsh(pv')) =
                       CountOver(err_buff, PllErrTsh(pv))
          /\ last'.ampSt = "none" =>
                /\ laser_amp_buff' = laser_amp_buff
                /\ CountUnder(laser_amp_buff', LaserAmpTsh(pv')) =
                       CountUnder(laser_amp_buff, LaserAmpTsh(pv))
          /\ last'.corrSt = "none" =>
                corr_buff' = IF last'.resetDone THEN <<>> ELSE corr_buff]_vars

\* a completed cycle without error sample on a buffer that holds samples
C16_Witness ==
    /\ Cycled /\ last.exc = "none" /\ last.errSt = "none"
    /\ last.len0.err > 0 /\ Len(err_buff) = last.len0.err

\* C17: a cycle that reads the PLL as off issues no force-off write
C17_NoForceWhenPllOff ==
    (Cycled /\ ~last.pll_read) => (~last.forceIssued /\ ~last.tripped)

\* the PLL was read as off while the error buffer is full of violations
C17_Witness ==
    /\ Cycled /\ last.exc = "none" /\ cfg.rp /\ ~last.pll_read
    /\ cfg.L > 0 /\ CountOver(err_buff, PllErrTsh(pv)) = cfg.L

\* C18: in MonitoringTask and DataLoggingTask a cycle whose processing raises
\* (the cycle that sets status ERROR) does not advance the cycle counter
C18_ErrorCycleNotCounted ==
    [][(attrs.task \in {"monitoring", "logging"} /\ pc = "idle"
          /\ last'.kind = "cycle" /\ last'.exc # "none") =>
          (status' = "ERROR" /\ cycle' = cycle)]_vars

\* C19 as claimed: under every interleaving of the callback's steps with the
\* run loop and the operator, a sw.set(0) is issued only while the counter is
\* above 10 and ENABLE is true
C19_SwitchOffOnlyWhileEnabled ==
    [][(attrs.task = "motor" /\ attrs'.cb.nset > attrs.cb.nset) =>
          (cycle > GraceCycles /\ pv.ENABLE # 0)]_vars

\* C19 amended: under every interleaving of the callback's steps with the run
\* loop, a sw.set(0) is issued only with the counter above 10, by a callback
\* that read the counter above 10 and ENABLE as true; a callback that reads
\* ENABLE as false returns without a sw.set(0); while the counter is at most
\* 10 every switch-off device is as it was at the start
C19_SwitchOffGated ==
    /\ [][(attrs.task = "motor" /\ attrs'.cb.nset > attrs.cb.nset) =>
             /\ cycle > GraceCycles
             /\ attrs.cb.sawCycle > GraceCycles
             /\ attrs.cb.sawEnable]_vars
    /\ [][(attrs.task = "motor" /\ attrs.cb.pc = "gate" /\ pv.ENABLE = 0
             /\ attrs'.cb # attrs.cb) =>
             (attrs'.cb.pc = "idle" /\ attrs'.sw = attrs.sw
                /\ attrs'.cb.nset = 0)]_vars
    /\ [](attrs.task = "motor" =>
             /\ attrs.cb.pc = "set" => attrs.cb.sawEnable
             /\ cycle <= GraceCycles => attrs.sw = SwOpen)

\* both devices were closed by a callback during which the run loop counted a
\* further cycle
C19_Witness ==
    /\ attrs.task = "motor"
    /\ attrs.sw["sw1"] = 0 /\ attrs.sw["sw2"] = 0
    /\ attrs.cb.nset = 2 /\ cycle > attrs.cb.sawCycle

\* C20: an enabled cycle that starts with AVG_RESET set leaves the correction
\* buffer with this cycle's sample only (empty when none was read), AVG_RESET
\* at 0, the configuration as it was, and the interlock buffers as their own
\* pushes leave them
C20_AvgReset ==
    [][(last'.kind = "cycle" /\ pv.AVG_RESET # 0) =>
          /\ corr_buff' = IF last'.corrSt = "val" THEN <<last'.corrV>>
                           ELSE <<>>
          /\ pv'.AVG_RESET = 0
          /\ cfg' = cfg
          /\ err_buff' = BufferAfter(err_buff, last'.errSt = "val",
                                     last'.errV, cfg.L)
          /\ laser_amp_buff' = BufferAfter(laser_amp_buff,
                                           last'.ampSt = "val",
                                           last'.ampV, cfg.L)]_vars

\* C21: a completed cycle in which the PLL is off (read as off, or turned off
\* by the interlock) ends with TRACKING_ON = 0, and no step of the task (a
\* step of run() or cleanup, which moves pc) takes TRACKING_ON from 0 to 1
C21_TrackingStaysOff ==
    /\ []((Cycled /\ last.exc = "none" /\ (~last.pll_read \/ last.tripped))
             => pv.TRACKING_ON = 0)
    /\ [][(pc' # pc /\ pv.TRACKING_ON = 0) => pv'.TRACKING_ON = 0]_vars

\* the PLL is back on in a completed cycle and tracking is still off
C21_Witness ==
    /\ Cycled /\ last.exc = "none" /\ last.pll_read /\ ~last.tripped
    /\ last.track0 = 0 /\ pv.TRACKING_ON = 0 /\ message.pll /\ ~message.track

\* C22: once status is ERROR every step leaves it ERROR, except cleanup,
\* which sets END
C22_ErrorStatusSticks ==
    [][status = "ERROR" =>
          \/ status' = "ERROR"
          \/ (status' = "END" /\ pc' = "stopped"
                /\ last'.kind = "cleanup")]_vars

\* a cycle completed after a failed one: new message, status still ERROR
C22_Witness ==
    /\ status = "ERROR" /\ Cycled /\ last.exc = "none"
    /\ message.kind = "cycle" /\ cycle > 0

\* C23: PLL_ON changes only in a cycle, to the hardware status that cycle
\* read; after every cycle that got past the read it holds that status, so a
\* trip cycle ends with PLL_ON = 1 and a message reporting the PLL off
C23_PllOnFromRead ==
    /\ [][pv'.PLL_ON # pv.PLL_ON =>
             (last'.kind = "cycle" /\ pc = "idle" /\ last'.exc # "pll"
                /\ pv'.PLL_ON = IF last'.pll_read THEN 1 ELSE 0)]_vars
    /\ []((Cycled /\ last.exc # "pll") =>
             pv.PLL_ON = IF last.pll_read THEN 1 ELSE 0)
    /\ []((Cycled /\ last.tripped) =>
             (pv.PLL_ON = 1 /\ last.msgSet /\ ~message.pll))

\* the cycle after a trip read the hardware as off and PLL_ON went to 0
C23_Witness ==
    /\ Cycled /\ last.exc = "none" /\ latched /\ ~last.tripped
    /\ ~last.pll_read /\ pv.PLL_ON = 0 /\ cfg.rp

====
